---- MODULE Spec2Model ----
(***************************************************************************)
(* HHMI Brothers storefront: the product catalog, the search/sort view,    *)
(* the order modal and the order placement handlers of src/script.js and   *)
(* of the older copy of the same handlers in src/HHMIBrothers/products.js, *)
(* and the shopping assistant of src/ai-assistant.js with its timeouts and *)
(* its saved conversation.                                                 *)
(*                                                                         *)
(* JavaScript strings are sequences of one-character strings, so that      *)
(* toLowerCase, trim, includes, parseInt, localeCompare, toLocaleString    *)
(* and encodeURIComponent are computed character by character as the       *)
(* engine computes them.                                                   *)
(***************************************************************************)
EXTENDS Integers, Sequences, FiniteSets, TLC

VARIABLES
    deployment,        \* which copy of the handlers the page runs
    products,          \* the catalog array (products.js:9)
    filteredProducts,  \* script.js:44
    searchInput,       \* searchInput.value
    sortSelect,        \* sortSelect.value
    productsContainer, \* the rendered product cards, in display order
    lastSearch,        \* history: input, sort key and view of the latest performSearch
    currentProduct,    \* script.js:43
    orderModal,        \* orderModal.style.display
    productQuantity,   \* productQuantity.value
    orderForm,         \* the values of the order form fields
    summary,           \* the four order summary elements
    overlays,          \* the email copy-instructions overlays in the document
    closeEmailModal,   \* what window.closeEmailModal is bound to
    locale,            \* the browser's default locale, used by toLocaleString
    outcome,           \* what the latest order handler returned, logged, alerted, opened
    isAIChatOpen,      \* ai-assistant.js:15
    aiInput,           \* aiInput.value and aiInput.style.borderColor
    conversationHistory, \* ai-assistant.js:16
    localStorage,      \* the item 'hhmi-ai-conversation' of localStorage
    aiMessages,        \* the children of the message list of the chat window
    timers,            \* the pending timeouts of the assistant, in the order set
    chatClock,         \* the clock read for the timestamps of the entries
    chatTrace          \* history: the messages accepted, the order of the responses
                       \* recorded and shown, every entry pushed since the last clear

queryVars == <<products, filteredProducts, searchInput, sortSelect,
               productsContainer, lastSearch>>
orderVars == <<currentProduct, orderModal, productQuantity, orderForm, summary,
               overlays, closeEmailModal, outcome>>
pageVars == <<deployment, locale>>
shopVars == <<deployment, products, filteredProducts, searchInput, sortSelect,
              productsContainer, lastSearch, currentProduct, orderModal,
              productQuantity, orderForm, summary, overlays, closeEmailModal, locale,
              outcome>>
chatVars == <<isAIChatOpen, aiInput, conversationHistory, localStorage, aiMessages,
              timers, chatClock, chatTrace>>
vars == <<deployment, products, filteredProducts, searchInput, sortSelect,
          productsContainer, lastSearch, currentProduct, orderModal,
          productQuantity, orderForm, summary, overlays, closeEmailModal, locale,
          outcome, isAIChatOpen, aiInput, conversationHistory, localStorage,
          aiMessages, timers, chatClock, chatTrace>>

(***************************************************************************)
(* Bounds                                                                  *)
(***************************************************************************)
MaxCatalog == 2     \* products in a catalog of the query-engine specification
CatalogSize == 2    \* leading records of products.js loaded in the shop specifications
MaxOverlays == 2    \* email overlays that can be open at once
MaxMessages == 2    \* chat messages accepted in one behaviour

(***************************************************************************)
(* Strings                                                                 *)
(***************************************************************************)
UpperLetters == <<"A","B","C","D","E","F","G","H","I","J","K","L","M",
                  "N","O","P","Q","R","S","T","U","V","W","X","Y","Z">>
LowerLetters == <<"a","b","c","d","e","f","g","h","i","j","k","l","m",
                  "n","o","p","q","r","s","t","u","v","w","x","y","z">>

UpperSet == {UpperLetters[i] : i \in 1..26}

LowerOf == [c \in UpperSet |-> LowerLetters[CHOOSE i \in 1..26 : UpperLetters[i] = c]]

toLowerChar(c) == IF c \in UpperSet THEN LowerOf[c] ELSE c

toLowerCase(s) == [i \in 1..Len(s) |-> toLowerChar(s[i])]

IsWhiteSpace(c) == c \in {" ", "\t", "\n"}

trim(s) ==
    LET keep == {i \in 1..Len(s) : ~IsWhiteSpace(s[i])}
    IN  IF keep = {} THEN <<>>
        ELSE SubSeq(s, CHOOSE i \in keep : \A j \in 1..(i - 1) : IsWhiteSpace(s[j]),
                       CHOOSE i \in keep : \A j \in (i + 1)..Len(s) : IsWhiteSpace(s[j]))

includes(s, t) ==
    \E k \in 0..(Len(s) - Len(t)) : \A j \in 1..Len(t) : s[k + j] = t[j]

Str1(a) == <<a>>
Str2(a, b) == <<a, b>>
Str3(a, b, c) == <<a, b, c>>

(***************************************************************************)
(* String.prototype.localeCompare in the root collation: strings are       *)
(* ordered by their letters regardless of case (white space before         *)
(* punctuation before digits before letters); strings with the same        *)
(* letters are ordered by case, lower case first.                          *)
(***************************************************************************)
Collation == <<"\t", "\n", " ", "-", ",", ".", "'",
               "0","1","2","3","4","5","6","7","8","9",
               "a","b","c","d","e","f","g","h","i","j","k","l","m",
               "n","o","p","q","r","s","t","u","v","w","x","y","z">>

CollationSet == {Collation[i] : i \in 1..Len(Collation)}

CollationIndex == [c \in CollationSet |-> CHOOSE i \in 1..Len(Collation) : Collation[i] = c]

CollationRank(c) ==
    LET l == toLowerChar(c)
    IN  IF l \in CollationSet THEN CollationIndex[l] ELSE Len(Collation) + 1

CaseRank(c) == IF c \in UpperSet THEN 1 ELSE 0

MinOf(S) == CHOOSE i \in S : \A j \in S : i <= j

Sign(n) == IF n < 0 THEN -1 ELSE IF n > 0 THEN 1 ELSE 0

localeCompare(a, b) ==
    LET n == IF Len(a) < Len(b) THEN Len(a) ELSE Len(b)
        primary == {i \in 1..n : CollationRank(a[i]) # CollationRank(b[i])}
        tertiary == {i \in 1..n : CaseRank(a[i]) # CaseRank(b[i])}
    IN  IF primary # {}
        THEN Sign(CollationRank(a[MinOf(primary)]) - CollationRank(b[MinOf(primary)]))
        ELSE IF Len(a) # Len(b) THEN Sign(Len(a) - Len(b))
        ELSE IF tertiary # {}
        THEN Sign(CaseRank(a[MinOf(tertiary)]) - CaseRank(b[MinOf(tertiary)]))
        ELSE 0

(***************************************************************************)
(* Query engine: performSearch and performSort                             *)
(***************************************************************************)
SortKeys == {"default", "price-low", "price-high", "name"}

compareProductsAscending(sortValue, a, b) ==
    CASE sortValue = "price-low"  -> a.price - b.price
      [] sortValue = "price-high" -> a.price - b.price
      [] sortValue = "name"       -> localeCompare(a.name, b.name)
      [] OTHER                    -> 0

\* the comparators of performSort, script.js:333, 336, 339
compareProducts(sortValue, a, b) ==
    CASE sortValue = "price-low"  -> a.price - b.price
      [] sortValue = "price-high" -> b.price - a.price
      [] sortValue = "name"       -> localeCompare(a.name, b.name)
      [] OTHER                    -> 0

\* Array.prototype.sort is stable: an element goes after the elements that
\* do not compare greater than it.
insertSorted(x, sorted, sortValue) ==
    LET greater == {i \in 1..Len(sorted) : compareProducts(sortValue, sorted[i], x) > 0}
    IN  IF greater = {} THEN Append(sorted, x)
        ELSE SubSeq(sorted, 1, MinOf(greater) - 1) \o <<x>>
             \o SubSeq(sorted, MinOf(greater), Len(sorted))

RECURSIVE sortPrefix(_, _, _)
sortPrefix(arr, n, sortValue) ==
    IF n = 0 THEN <<>>
    ELSE insertSorted(arr[n], sortPrefix(arr, n - 1, sortValue), sortValue)

arraySort(arr, sortValue) == sortPrefix(arr, Len(arr), sortValue)

normalizeSearchTermNoTrim(value) == toLowerCase(value)

\* script.js:301
normalizeSearchTerm(value) == trim(toLowerCase(value))

matchesSearchNoCategory(product, searchTerm) ==
    \/ includes(toLowerCase(product.name), searchTerm)
    \/ includes(toLowerCase(product.description), searchTerm)

\* the filter predicate, script.js:309-313
matchesSearch(product, searchTerm) ==
    \/ includes(toLowerCase(product.name), searchTerm)
    \/ includes(toLowerCase(product.description), searchTerm)
    \/ includes(toLowerCase(product.category), searchTerm)

\* script.js:304-314
filterProducts(prods, searchTerm) ==
    IF searchTerm = <<>> THEN prods
    ELSE SelectSeq(prods, LAMBDA p : matchesSearch(p, searchTerm))

\* createProductCard, script.js:198-213 and products.js:276-289
createProductCard(product, dep) ==
    IF dep = "script.js"
    THEN [dataId |-> product.id, image |-> product.image, name |-> product.name,
          category |-> product.category, description |-> product.description,
          price |-> product.price]
    ELSE [dataId |-> product.id, image |-> product.image, name |-> product.name,
          price |-> product.price]

\* loadProducts, script.js:168-191
loadProducts(productsToLoad, dep) ==
    [cards |-> [i \in 1..Len(productsToLoad) |-> createProductCard(productsToLoad[i], dep)],
     noProducts |-> Len(productsToLoad) = 0]

\* The arrays after script.js:326-344.  The receiver of sort() is the fresh
\* copy [...filteredProducts]: neither products nor filteredProducts is written.
sortInPlaceOfCatalog(prods, filtered, sortValue) ==
    [products |-> arraySort(prods, sortValue),
     filteredProducts |-> filtered,
     sortedProducts |-> arraySort(filtered, sortValue)]

sortInPlaceOfFiltered(prods, filtered, sortValue) ==
    [products |-> prods,
     filteredProducts |-> arraySort(filtered, sortValue),
     sortedProducts |-> arraySort(filtered, sortValue)]

sortArrays(prods, filtered, sortValue) ==
    [products |-> prods,
     filteredProducts |-> filtered,
     sortedProducts |-> IF sortValue \in {"price-low", "price-high", "name"}
                        THEN arraySort(filtered, sortValue)
                        ELSE filtered]

\* performSort reading the given filteredProducts and sort key, script.js:325-348
runSort(filtered, sortValue) ==
    LET r == sortArrays(products, filtered, sortValue)
    IN  /\ products' = r.products
        /\ filteredProducts' = r.filteredProducts
        /\ productsContainer' = loadProducts(r.sortedProducts, deployment)

\* the user edits the search box without submitting
EditSearch(value) ==
    /\ value # searchInput
    /\ searchInput' = value
    /\ UNCHANGED <<deployment, locale, products, filteredProducts, sortSelect,
                   productsContainer, lastSearch>>
    /\ UNCHANGED orderVars /\ UNCHANGED chatVars

\* click on the search button or Enter in the search box, script.js:300-320
performSearch ==
    /\ runSort(filterProducts(products, normalizeSearchTerm(searchInput)), sortSelect)
    /\ lastSearch' = [done |-> TRUE, term |-> searchInput, key |-> sortSelect,
                      view |-> productsContainer'.cards,
                      before |-> Len(filteredProducts),
                      again |-> /\ lastSearch.done
                                /\ lastSearch.term = searchInput
                                /\ lastSearch.key = sortSelect]
    /\ UNCHANGED <<deployment, locale, searchInput, sortSelect>>
    /\ UNCHANGED orderVars /\ UNCHANGED chatVars

\* change event of the sort select, script.js:294 and 325-348
performSort(value) ==
    /\ value # sortSelect
    /\ sortSelect' = value
    /\ runSort(filteredProducts, value)
    /\ UNCHANGED <<deployment, locale, searchInput, lastSearch>>
    /\ UNCHANGED orderVars /\ UNCHANGED chatVars

(***************************************************************************)
(* Selection state: openOrderModal, closeOrderModal, updateOrderSummary    *)
(***************************************************************************)
Null == [js |-> "null"]
Undefined == [js |-> "undefined"]

\* truthiness of currentProduct, as tested at script.js:105 and 145
IsSelected(cp) == cp # Null /\ cp # Undefined

findProductOrFirst(prods, productId) ==
    LET hits == {i \in 1..Len(prods) : prods[i].id = productId}
    IN  IF hits = {} THEN prods[1] ELSE prods[MinOf(hits)]

\* Array.prototype.find, script.js:103
findProduct(prods, productId) ==
    LET hits == {i \in 1..Len(prods) : prods[i].id = productId}
    IN  IF hits = {} THEN Undefined ELSE prods[MinOf(hits)]

Digits == <<"0","1","2","3","4","5","6","7","8","9">>
IsDigit(c) == \E d \in 1..10 : Digits[d] = c
DigitValue(c) == (CHOOSE d \in 1..10 : Digits[d] = c) - 1

RECURSIVE digitsValue(_, _)
digitsValue(s, n) ==
    IF n = 0 THEN 0 ELSE digitsValue(s, n - 1) * 10 + DigitValue(s[n])

\* parseInt(string): leading white space is skipped, a sign is read, then the
\* longest run of digits; NaN when there is none.
parseInt(s) ==
    LET start  == {i \in 1..Len(s) : ~IsWhiteSpace(s[i])}
        t      == IF start = {} THEN <<>> ELSE SubSeq(s, MinOf(start), Len(s))
        signed == t # <<>> /\ t[1] \in {"-", "+"}
        body   == IF signed THEN Tail(t) ELSE t
        stop   == {i \in 1..Len(body) : ~IsDigit(body[i])}
        n      == IF stop = {} THEN Len(body) ELSE MinOf(stop) - 1
    IN  IF n = 0 THEN [nan |-> TRUE, value |-> 0]
        ELSE [nan |-> FALSE,
              value |-> IF signed /\ t[1] = "-" THEN 0 - digitsValue(body, n)
                        ELSE digitsValue(body, n)]

\* parseInt(productQuantity.value) || 1, script.js:150 and 626
effectiveQuantity(value) ==
    LET p == parseInt(value)
    IN  IF p.nan \/ p.value = 0 THEN 1 ELSE p.value

NoSummary == [shown |-> FALSE]

\* a summary that keeps the total it already shows
updateOrderSummaryMemo(cp, quantityValue, old) ==
    IF ~IsSelected(cp) THEN old
    ELSE [shown |-> TRUE, product |-> cp.name, price |-> cp.price,
          quantity |-> effectiveQuantity(quantityValue),
          total |-> IF old.shown THEN old.total
                    ELSE cp.price * effectiveQuantity(quantityValue)]

\* updateOrderSummary, script.js:144-160: the summary elements afterwards
updateOrderSummary(cp, quantityValue, old) ==
    IF ~IsSelected(cp) THEN old
    ELSE [shown |-> TRUE, product |-> cp.name, price |-> cp.price,
          quantity |-> effectiveQuantity(quantityValue),
          total |-> cp.price * effectiveQuantity(quantityValue)]

NoAction == [channel |-> "none"]

Outcome(op, arg, result, console, alert, action) ==
    [op |-> op, arg |-> arg, result |-> result, console |-> console,
     alert |-> alert, action |-> action]

\* the value openOrderModal returns: the function has no return statement
openOrderModalResult(found) == "undefined"

\* openOrderModal(productId), script.js:99-117
openOrderModal(productId) ==
    LET found == findProduct(products, productId)
    IN  /\ currentProduct' = found
        /\ IF IsSelected(found)
           THEN /\ summary' = updateOrderSummary(found, productQuantity, summary)
                /\ orderModal' = "block"
                /\ outcome' = Outcome("openOrderModal", productId,
                                      openOrderModalResult(TRUE), "log", "none", NoAction)
           ELSE /\ UNCHANGED <<summary, orderModal>>
                /\ outcome' = Outcome("openOrderModal", productId,
                                      openOrderModalResult(FALSE), "error", "none", NoAction)
        /\ UNCHANGED <<productQuantity, orderForm, overlays, closeEmailModal>>
        /\ UNCHANGED pageVars /\ UNCHANGED queryVars /\ UNCHANGED chatVars

EmptyForm == [name |-> <<>>, phone |-> <<>>, email |-> <<>>, address |-> <<>>,
              size |-> <<>>, instructions |-> <<>>]

\* closeOrderModal without the reset of the quantity field
closeOrderModalKeepingQuantity ==
    /\ orderModal' = "none"
    /\ orderForm' = EmptyForm
    /\ productQuantity' = productQuantity
    /\ currentProduct' = Null

\* the writes of closeOrderModal, script.js:122-129
closeOrderModalWrites ==
    /\ orderModal' = "none"
    /\ orderForm' = EmptyForm
    /\ productQuantity' = Str1("1")
    /\ currentProduct' = Null

\* click on the X of the modal, script.js:83
closeOrderModal ==
    /\ orderModal = "block"
    /\ closeOrderModalWrites
    /\ outcome' = Outcome("closeOrderModal", 0, "undefined", "log", "none", NoAction)
    /\ UNCHANGED <<summary, overlays, closeEmailModal>>
    /\ UNCHANGED pageVars /\ UNCHANGED queryVars /\ UNCHANGED chatVars

\* click on the modal backdrop, script.js:135-139
outsideModalClick ==
    /\ orderModal = "block"
    /\ closeOrderModalWrites
    /\ outcome' = Outcome("outsideModalClick", 0, "undefined", "log", "none", NoAction)
    /\ UNCHANGED <<summary, overlays, closeEmailModal>>
    /\ UNCHANGED pageVars /\ UNCHANGED queryVars /\ UNCHANGED chatVars

\* change event of the quantity field, script.js:89 and 144-160
quantityChange(value) ==
    /\ orderModal = "block"
    /\ value # productQuantity
    /\ productQuantity' = value
    /\ summary' = updateOrderSummary(currentProduct, value, summary)
    /\ outcome' = Outcome("updateOrderSummary", 0, "undefined",
                          IF IsSelected(currentProduct) THEN "log" ELSE "warn",
                          "none", NoAction)
    /\ UNCHANGED <<currentProduct, orderModal, orderForm, overlays, closeEmailModal>>
    /\ UNCHANGED pageVars /\ UNCHANGED queryVars /\ UNCHANGED chatVars

\* the customer fills in the order form
fillForm(form) ==
    /\ orderModal = "block"
    /\ form # orderForm
    /\ orderForm' = form
    /\ UNCHANGED <<currentProduct, orderModal, productQuantity, summary, overlays,
                   closeEmailModal, outcome>>
    /\ UNCHANGED pageVars /\ UNCHANGED queryVars /\ UNCHANGED chatVars

(***************************************************************************)
(* Order composer and delivery dispatcher                                  *)
(***************************************************************************)
\* [^\s@]
IsAddressChar(c) == ~IsWhiteSpace(c) /\ c # "@"

\* /^[^\s@]+@[^\s@]+\.[^\s@]+$/, script.js:707-710 and products.js:646
isValidEmail(email) ==
    \E at \in 2..Len(email) : \E dot \in (at + 2)..(Len(email) - 1) :
        /\ email[at] = "@"
        /\ email[dot] = "."
        /\ \A i \in 1..Len(email) : i # at => IsAddressChar(email[i])

\* validateForm without the check of the email format
validateFormNoEmailCheck(form, dep) ==
    IF form.name = <<>> \/ form.phone = <<>> \/ form.address = <<>> \/ form.size = <<>>
       \/ (dep = "products.js" /\ form.email = <<>>)
    THEN [ok |-> FALSE, alert |-> "required"]
    ELSE [ok |-> TRUE, alert |-> "none"]

\* validateForm, script.js:681-704 and products.js:632-654:
\* the value returned and the alert shown
validateForm(form, dep) ==
    IF dep = "script.js"
    THEN IF form.name = <<>> \/ form.phone = <<>> \/ form.address = <<>>
            \/ form.size = <<>>
         THEN [ok |-> FALSE, alert |-> "required"]
         ELSE IF form.email # <<>> /\ ~isValidEmail(form.email)
         THEN [ok |-> FALSE, alert |-> "email"]
         ELSE [ok |-> TRUE, alert |-> "none"]
    ELSE IF form.name = <<>> \/ form.phone = <<>> \/ form.email = <<>>
            \/ form.address = <<>> \/ form.size = <<>>
         THEN [ok |-> FALSE, alert |-> "required"]
         ELSE IF ~isValidEmail(form.email)
         THEN [ok |-> FALSE, alert |-> "email"]
         ELSE [ok |-> TRUE, alert |-> "none"]

\* the fields that the text of an alert names, script.js:692, 698 and
\* products.js:641, 648
fieldsNamedByAlert(alert, dep) ==
    IF alert = "required"
    THEN IF dep = "script.js" THEN {"name", "phone", "address", "size"} ELSE {}
    ELSE IF alert = "email" THEN {"email"}
    ELSE {}

\* the decimal digits of a natural number
RECURSIVE decimalDigits(_)
decimalDigits(n) ==
    IF n < 10 THEN <<Digits[n + 1]>>
    ELSE Append(decimalDigits(n \div 10), Digits[(n % 10) + 1])

\* String(n), as a template literal renders a number: ${data.quantity}
numberToString(n) ==
    IF n < 0 THEN <<"-">> \o decimalDigits(0 - n) ELSE decimalDigits(n)

\* digits with sep before every group of three that is not the first
groupThousands(digits, sep) ==
    LET positions == {i \in 1..Len(digits) : i > 1 /\ (Len(digits) - i + 1) % 3 = 0}
        RECURSIVE build(_)
        build(i) ==
            IF i = 0 THEN <<>>
            ELSE build(i - 1) \o (IF i \in positions THEN <<sep>> ELSE <<>>)
                              \o <<digits[i]>>
    IN  build(Len(digits))

\* Number.prototype.toLocaleString() of an integer with the default locale,
\* script.js:658 and 660: the grouping separator and the least number of
\* digits that are grouped come from the locale
toLocaleString(n, loc) ==
    LET digits == decimalDigits(IF n < 0 THEN 0 - n ELSE n)
        grouped == IF loc = "en-US" THEN groupThousands(digits, ",")
                   ELSE IF Len(digits) >= 5 THEN groupThousands(digits, ".")
                   ELSE digits
    IN  (IF n < 0 THEN <<"-">> ELSE <<>>) \o grouped

\* one line of a message: the literal text of the template, the interpolated
\* value and the literal text after it
Line(section, label, value, tail) ==
    [section |-> section, label |-> label, value |-> value, tail |-> tail]

\* the instructions as they were entered
instructionsAsEntered(instructions) == instructions

\* data.instructions || 'None', script.js:670 and products.js:620
instructionsOrNone(instructions) ==
    IF instructions = <<>> THEN <<"N", "o", "n", "e">> ELSE instructions

\* formatOrderMessage(data), script.js:652-675 and products.js:600-626: the
\* lines of the template literal; a pictograph is written as its code point
formatOrderMessage(data, dep, loc) ==
    IF dep = "script.js"
    THEN << Line("header", "U+1F6CD NEW ORDER - HHMI Brothers", <<>>, ""),
            Line("header", "", <<>>, ""),
            Line("details", "U+1F4E6 ORDER DETAILS:", <<>>, ""),
            Line("details", "Product: ", data.product, ""),
            Line("details", "Price: PKR ", toLocaleString(data.price, loc), ""),
            Line("details", "Quantity: ", numberToString(data.quantity), ""),
            Line("details", "Total: PKR ", toLocaleString(data.total, loc), ""),
            Line("details", "Size: ", data.size, ""),
            Line("details", "", <<>>, ""),
            Line("customer", "U+1F464 CUSTOMER INFO:", <<>>, ""),
            Line("customer", "Name: ", data.name, ""),
            Line("customer", "Phone: ", data.phone, ""),
            Line("customer", IF data.email # <<>> THEN "Email: " ELSE "", data.email, ""),
            Line("customer", "Address: ", data.address, ""),
            Line("customer", "", <<>>, ""),
            Line("instructions", "U+1F4DD INSTRUCTIONS:", <<>>, ""),
            Line("instructions", "", instructionsOrNone(data.instructions), ""),
            Line("footer", "U+23F0 Order Time: ", <<data.time>>, ";"),
            Line("footer", "-----------------------", <<>>, ""),
            Line("footer", "Order placed via HHMI Brothers Website", <<>>, ""),
            Line("footer", "Please process this order and contact the customer for confirmation.",
                 <<>>, "") >>
    ELSE << Line("header", "NEW ORDER - HHMI Brothers", <<>>, ""),
            Line("header", "", <<>>, ""),
            Line("details", "ORDER DETAILS:", <<>>, ""),
            Line("details", "----------------", <<>>, ""),
            Line("details", "Product: ", data.product, ""),
            Line("details", "Unit Price: PKR ", toLocaleString(data.price, loc), ""),
            Line("details", "Quantity: ", numberToString(data.quantity), ""),
            Line("details", "Total Amount: PKR ", toLocaleString(data.total, loc), ""),
            Line("details", "", <<>>, ""),
            Line("customer", "CUSTOMER INFORMATION:", <<>>, ""),
            Line("customer", "----------------", <<>>, ""),
            Line("customer", "Full Name: ", data.name, ""),
            Line("customer", "Phone: ", data.phone, ""),
            Line("customer", "Email: ", data.email, ""),
            Line("customer", "Delivery Address: ", data.address, ""),
            Line("customer", "Size: ", data.size, ""),
            Line("customer", "", <<>>, ""),
            Line("instructions", "SPECIAL INSTRUCTIONS:", <<>>, ""),
            Line("instructions", "----------------", <<>>, ""),
            Line("instructions", "", instructionsOrNone(data.instructions), ""),
            Line("instructions", "", <<>>, ""),
            Line("footer", "----------------", <<>>, ""),
            Line("footer", "Order placed via HHMI Brothers Website", <<>>, ""),
            Line("footer", "Order Time: ", <<data.time>>, ""),
            Line("footer", "Please process this order and contact the customer for confirmation.",
                 <<>>, "") >>

\* getOrderData that leaves the time to be filled in when the message is sent
getOrderDataWithoutTime(cp, quantityValue, form, now) ==
    [product |-> cp.name,
     price |-> cp.price,
     quantity |-> effectiveQuantity(quantityValue),
     total |-> cp.price * effectiveQuantity(quantityValue),
     name |-> form.name,
     phone |-> form.phone,
     email |-> form.email,
     address |-> form.address,
     size |-> form.size,
     instructions |-> form.instructions,
     time |-> "send time"]

\* getOrderData, script.js:625-644; reading currentProduct.price throws a
\* TypeError when currentProduct is null or undefined
getOrderData(cp, quantityValue, form, now) ==
    [product |-> cp.name,
     price |-> cp.price,
     quantity |-> effectiveQuantity(quantityValue),
     total |-> cp.price * effectiveQuantity(quantityValue),
     name |-> form.name,
     phone |-> form.phone,
     email |-> form.email,
     address |-> form.address,
     size |-> form.size,
     instructions |-> form.instructions,
     time |-> now]

\* the characters encodeURIComponent leaves as they are
UnreservedMarks == {"-", "_", ".", "!", "~", "*", "'", "(", ")"}

\* the UTF-8 escapes of the other printable ASCII characters
Escapes ==
    [c \in {" ", "#", "$", "%", "&", "+", ",", "/", ":", ";", "=", "?", "@"} |->
        CASE c = " " -> "%20" [] c = "#" -> "%23" [] c = "$" -> "%24"
          [] c = "%" -> "%25" [] c = "&" -> "%26" [] c = "+" -> "%2B"
          [] c = "," -> "%2C" [] c = "/" -> "%2F" [] c = ":" -> "%3A"
          [] c = ";" -> "%3B" [] c = "=" -> "%3D" [] c = "?" -> "%3F"
          [] c = "@" -> "%40"]

\* encodeURIComponent(s): letters, digits and the unreserved marks stay, every
\* other character becomes its escape; a part that is kept whole (a clock
\* reading) is marked as escaped
escapeChar(c) ==
    IF c \in DOMAIN Escapes THEN Escapes[c]
    ELSE IF c \in UnreservedMarks \/ IsDigit(c) \/ c \in UpperSet
            \/ c \in {LowerLetters[i] : i \in 1..Len(LowerLetters)}
    THEN c
    ELSE "%(" \o c \o ")"

encodeURIComponent(s) == [i \in 1..Len(s) |-> escapeChar(s[i])]

\* encodeURIComponent of a message: the literal text of each line is marked
\* as encoded, the interpolated value is encoded character by character
encodeLines(lines) ==
    [i \in 1..Len(lines) |->
        [literal |-> <<"encodeURIComponent", lines[i].label, lines[i].tail>>,
         value |-> encodeURIComponent(lines[i].value)]]

\* the destinations, script.js:456, 481 and products.js:536, 560
whatsAppPhone(dep) ==
    IF dep = "script.js"
    THEN <<"9","2","3","4","2","9","4","3","8","4","3","6">>
    ELSE <<"+","9","2","3","4","4","1","0","9","2","9","1","0">>
orderEmail(dep) ==
    IF dep = "script.js" THEN "hhmibrothers@gmail.com" ELSE "waqaskhank128@gmail.com"

\* the subject, script.js:482 and products.js:558
emailSubject(order, dep) ==
    IF dep = "script.js"
    THEN [text |-> "NEW ORDER - HHMI Brothers - ", product |-> order.product]
    ELSE [text |-> "NEW ORDER - HHMI Brothers", product |-> <<>>]

\* encodeURIComponent(subject)
encodeSubject(subject) ==
    [literal |-> <<"encodeURIComponent", subject.text, "">>,
     value |-> encodeURIComponent(subject.product)]

\* the url opened by placeWhatsAppOrder with window.open(url, '_blank'),
\* script.js:455-460 and products.js:535-540
whatsAppAction(order, dep, loc) ==
    [channel |-> "whatsapp", service |-> "https://wa.me/", to |-> whatsAppPhone(dep),
     text |-> encodeLines(formatOrderMessage(order, dep, loc)),
     order |-> order, via |-> "window.open"]

\* the url assigned to window.location.href, products.js:558-564
mailtoAction(order, dep, loc) ==
    [channel |-> "mailto", to |-> orderEmail(dep),
     subject |-> emailSubject(order, dep),
     query |-> [subject |-> encodeSubject(emailSubject(order, dep)),
                body |-> encodeLines(formatOrderMessage(order, dep, loc))],
     order |-> order, via |-> "window.location.href"]

\* emailContent, script.js:486-500: the message followed by a summary
emailContent(order, dep, loc) ==
    formatOrderMessage(order, dep, loc) \o
    << Line("summary", "", <<>>, ""),
       Line("summary", "---", <<>>, ""),
       Line("summary", "ORDER SUMMARY:", <<>>, ""),
       Line("summary", "* Product: ", order.product, ""),
       Line("summary", "* Size: ", order.size, "  "),
       Line("summary", "* Quantity: ", numberToString(order.quantity), ""),
       Line("summary", "* Total: PKR ", toLocaleString(order.total, loc), ""),
       Line("summary", "* Customer: ", order.name, ""),
       Line("summary", "* Phone: ", order.phone, ""),
       Line("summary", "* Address: ", order.address, ""),
       Line("summary", IF order.email # <<>> THEN "* Email: " ELSE "", order.email, ""),
       Line("summary", IF order.instructions # <<>> THEN "* Instructions: " ELSE "",
            order.instructions, ""),
       Line("summary", "", <<>>, ""),
       Line("summary", "Thank you for your order! We'll contact you within 24 hours. U+1F4E6",
            <<>>, "") >>

\* the overlay built by showEmailCopyInstructions, script.js:509-564: the
\* address, the text area and the link to Gmail, whose body parameter is the
\* encoding of the text of the text area
emailOverlay(order, dep, loc) ==
    [to |-> orderEmail(dep), subject |-> emailSubject(order, dep),
     emailOrderText |-> emailContent(order, dep, loc),
     gmail |-> [to |-> orderEmail(dep),
                su |-> encodeSubject(emailSubject(order, dep)),
                body |-> <<"encodeURIComponent", "emailOrderText">>],
     order |-> order]

\* click on the WhatsApp button, script.js:449-462 and products.js:526-544
placeWhatsAppOrder(now) ==
    /\ orderModal = "block"
    /\ LET v == validateForm(orderForm, deployment)
       IN  IF ~v.ok
           THEN /\ outcome' = Outcome("placeWhatsAppOrder", 0, "undefined",
                                      IF deployment = "script.js" THEN "log" ELSE "warn",
                                      v.alert, NoAction)
                /\ UNCHANGED <<currentProduct, orderModal, productQuantity, orderForm>>
           ELSE IF ~IsSelected(currentProduct)
           THEN /\ outcome' = Outcome("placeWhatsAppOrder", 0, "TypeError", "log",
                                      "none", NoAction)
                /\ UNCHANGED <<currentProduct, orderModal, productQuantity, orderForm>>
           ELSE /\ outcome' = Outcome("placeWhatsAppOrder", 0, "undefined", "log", "none",
                       whatsAppAction(getOrderData(currentProduct, productQuantity,
                                                   orderForm, now), deployment, locale))
                /\ closeOrderModalWrites
    /\ UNCHANGED <<summary, overlays, closeEmailModal>>
    /\ UNCHANGED pageVars /\ UNCHANGED queryVars /\ UNCHANGED chatVars

\* click on the email button, products.js:549-568
placeEmailOrderMailto(now) ==
    /\ deployment = "products.js"
    /\ orderModal = "block"
    /\ LET v == validateForm(orderForm, deployment)
       IN  IF ~v.ok
           THEN /\ outcome' = Outcome("placeEmailOrder", 0, "undefined", "warn",
                                      v.alert, NoAction)
                /\ UNCHANGED <<currentProduct, orderModal, productQuantity, orderForm>>
           ELSE IF ~IsSelected(currentProduct)
           THEN /\ outcome' = Outcome("placeEmailOrder", 0, "TypeError", "log",
                                      "none", NoAction)
                /\ UNCHANGED <<currentProduct, orderModal, productQuantity, orderForm>>
           ELSE /\ outcome' = Outcome("placeEmailOrder", 0, "undefined", "log", "none",
                       mailtoAction(getOrderData(currentProduct, productQuantity,
                                                 orderForm, now), deployment, locale))
                /\ closeOrderModalWrites
    /\ UNCHANGED <<summary, overlays, closeEmailModal>>
    /\ UNCHANGED pageVars /\ UNCHANGED queryVars /\ UNCHANGED chatVars

\* click on the email button, script.js:472-504 with
\* showEmailCopyInstructions, script.js:509-588
placeEmailOrderCopy(now) ==
    /\ deployment = "script.js"
    /\ orderModal = "block"
    /\ Len(overlays) < MaxOverlays
    /\ LET v == validateForm(orderForm, deployment)
       IN  IF ~v.ok
           THEN /\ outcome' = Outcome("placeEmailOrder", 0, "undefined", "warn",
                                      v.alert, NoAction)
                /\ UNCHANGED <<overlays, closeEmailModal>>
           ELSE IF ~IsSelected(currentProduct)
           THEN /\ outcome' = Outcome("placeEmailOrder", 0, "TypeError", "log",
                                      "none", NoAction)
                /\ UNCHANGED <<overlays, closeEmailModal>>
           ELSE LET order == getOrderData(currentProduct, productQuantity, orderForm, now)
                IN  /\ overlays' = Append(overlays, emailOverlay(order, deployment, locale))
                    /\ closeEmailModal' = "attached"
                    /\ outcome' = Outcome("placeEmailOrder", 0, "undefined", "log", "none",
                                          [channel |-> "overlay"])
    /\ UNCHANGED <<currentProduct, orderModal, productQuantity, orderForm, summary>>
    /\ UNCHANGED pageVars /\ UNCHANGED queryVars /\ UNCHANGED chatVars

\* the url placeEmailOrderGmail opens, script.js:601-610
gmailAction(order, dep, loc) ==
    [channel |-> "gmail", service |-> "https://mail.google.com/mail/?view=cm&fs=1",
     to |-> orderEmail(dep),
     su |-> encodeSubject(emailSubject(order, dep)),
     body |-> encodeLines(formatOrderMessage(order, dep, loc)),
     order |-> order, via |-> "window.open"]

\* a call of placeEmailOrderGmail(), script.js:593-619, which no button is bound
\* to; opened is what window.open returns: a window, or null when the browser
\* blocks it. copyOrderToClipboard, called at script.js:615, is defined nowhere:
\* the call throws a ReferenceError
placeEmailOrderGmail(now, opened) ==
    /\ deployment = "script.js"
    /\ LET v == validateForm(orderForm, deployment)
       IN  IF ~v.ok
           THEN /\ outcome' = Outcome("placeEmailOrderGmail", 0, "undefined", "warn",
                                      v.alert, NoAction)
                /\ UNCHANGED <<currentProduct, orderModal, productQuantity, orderForm>>
           ELSE IF ~IsSelected(currentProduct)
           THEN /\ outcome' = Outcome("placeEmailOrderGmail", 0, "TypeError", "log",
                                      "none", NoAction)
                /\ UNCHANGED <<currentProduct, orderModal, productQuantity, orderForm>>
           ELSE LET action == gmailAction(getOrderData(currentProduct, productQuantity,
                                                       orderForm, now), deployment, locale)
                IN  IF opened = "null"
                    THEN /\ outcome' = Outcome("placeEmailOrderGmail", 0, "ReferenceError",
                                               "log", "none", action)
                         /\ UNCHANGED <<currentProduct, orderModal, productQuantity,
                                        orderForm>>
                    ELSE /\ outcome' = Outcome("placeEmailOrderGmail", 0, "undefined",
                                               "log", "none", action)
                         /\ closeOrderModalWrites
    /\ UNCHANGED <<summary, overlays, closeEmailModal>>
    /\ UNCHANGED pageVars /\ UNCHANGED queryVars /\ UNCHANGED chatVars

\* click on "I've Sent It" in an overlay: window.closeEmailModal, script.js:584-587,
\* removes the overlay of the latest showEmailCopyInstructions call
closeEmailModalClick ==
    /\ overlays # <<>>
    /\ overlays' = IF closeEmailModal = "attached"
                   THEN SubSeq(overlays, 1, Len(overlays) - 1)
                   ELSE overlays
    /\ closeEmailModal' = "detached"
    /\ closeOrderModalWrites
    /\ outcome' = Outcome("closeEmailModal", 0, "undefined", "log", "none", NoAction)
    /\ UNCHANGED summary
    /\ UNCHANGED pageVars /\ UNCHANGED queryVars /\ UNCHANGED chatVars

(***************************************************************************)
(* The shopping assistant of src/ai-assistant.js: the chat input, the      *)
(* conversation history and its copy in localStorage, the message list of  *)
(* the chat window and the timeouts that deliver responses and messages    *)
(***************************************************************************)
\* the longest message accepted, ai-assistant.js:186
MaxMessageLength == 500

\* the entries kept by saveConversationHistory, ai-assistant.js:515
HistoryLimit == 20

\* localStorage.getItem of a key never set, or removed
NoItem == [js |-> "null"]

\* the keywords of createAIResponse, ai-assistant.js:345-390, in the order tested
Keywords == <<
    [handler |-> "handleProductQuery",
     words |-> {<<"j","a","c","k","e","t">>,
               <<"p","r","o","d","u","c","t">>,
               <<"c","o","l","l","e","c","t","i","o","n">>}],
    [handler |-> "handlePriceQuery",
     words |-> {<<"p","r","i","c","e">>,
               <<"c","o","s","t">>,
               <<"h","o","w"," ","m","u","c","h">>}],
    [handler |-> "handleSizeQuery",
     words |-> {<<"s","i","z","e">>,
               <<"f","i","t">>,
               <<"m","e","a","s","u","r","e">>}],
    [handler |-> "handleOrderQuery",
     words |-> {<<"o","r","d","e","r">>,
               <<"b","u","y">>,
               <<"p","u","r","c","h","a","s","e">>}],
    [handler |-> "handleDeliveryQuery",
     words |-> {<<"d","e","l","i","v","e","r","y">>,
               <<"s","h","i","p","p","i","n","g">>,
               <<"d","i","s","p","a","t","c","h">>}],
    [handler |-> "handleContactQuery",
     words |-> {<<"c","o","n","t","a","c","t">>,
               <<"l","o","c","a","t","i","o","n">>,
               <<"a","d","d","r","e","s","s">>}],
    [handler |-> "handleMaterialQuery",
     words |-> {<<"m","a","t","e","r","i","a","l">>,
               <<"f","a","b","r","i","c">>,
               <<"q","u","a","l","i","t","y">>}],
    [handler |-> "handleReturnQuery",
     words |-> {<<"r","e","t","u","r","n">>,
               <<"e","x","c","h","a","n","g","e">>,
               <<"r","e","f","u","n","d">>}],
    [handler |-> "handleWeatherQuery",
     words |-> {<<"w","e","a","t","h","e","r">>,
               <<"r","a","i","n">>,
               <<"w","i","n","t","e","r">>,
               <<"c","o","l","d">>}],
    [handler |-> "handleGreetingQuery",
     words |-> {<<"h","e","l","l","o">>,
               <<"h","i">>,
               <<"h","e","l","p">>}] >>

\* the texts the handlers return, ai-assistant.js:403-497, by their first words;
\* handleProductQuery and handleGreetingQuery pick one of three at random
Responses(handler, message) ==
    CASE handler = "handleProductQuery" ->
            { "We have a fantastic collection of jackets!",
              "Our jacket collection includes various styles for different occasions.",
              "Looking for something specific?" }
      [] handler = "handlePriceQuery" ->
            { "Our jackets are priced between PKR 3,299 and PKR 5,999" }
      [] handler = "handleSizeQuery" ->
            { "We offer a comprehensive size range to ensure perfect fit" }
      [] handler = "handleOrderQuery" -> { "Ordering is easy! Here's how" }
      [] handler = "handleDeliveryQuery" -> { "Delivery Information" }
      [] handler = "handleContactQuery" -> { "Contact HHMI Brothers" }
      [] handler = "handleMaterialQuery" -> { "Quality Materials" }
      [] handler = "handleReturnQuery" -> { "Return & Exchange Policy" }
      [] handler = "handleWeatherQuery" ->
            IF includes(message, <<"r","a","i","n">>)
               \/ includes(message, <<"w","a","t","e","r">>)
            THEN { "For rainy weather, I recommend our waterproof trench coats" }
            ELSE IF includes(message, <<"w","i","n","t","e","r">>)
                    \/ includes(message, <<"c","o","l","d">>)
            THEN { "For cold weather, our winter parkas and puffer jackets are perfect!" }
            ELSE { "We have jackets for all weather conditions!" }
      [] handler = "handleGreetingQuery" ->
            { "Hello! I'm your AI shopping assistant at HHMI Brothers.",
              "Hi there! Welcome to HHMI Brothers.",
              "Greetings! I'm your personal shopping assistant." }
      [] OTHER -> { "I'm not sure I understand." }

\* the first branch of createAIResponse whose keywords the message includes
firstMatch(lowerMessage) ==
    LET Matching == { i \in DOMAIN Keywords : \E w \in Keywords[i].words : includes(lowerMessage, w) }
    IN  IF Matching = {} THEN "handleDefaultQuery"
        ELSE Keywords[CHOOSE i \in Matching : \A j \in Matching : i <= j].handler

\* createAIResponse(message), ai-assistant.js:341-396: the texts it can return,
\* each a string of one piece
createAIResponse(message) ==
    LET lowerMessage == toLowerCase(message)
    IN  { <<text>> : text \in Responses(firstMatch(lowerMessage), lowerMessage) }

\* validateMessage(message), ai-assistant.js:180-192
validateMessage(message) ==
    IF message = <<>> THEN [ok |-> FALSE, error |-> "Please type a message"]
    ELSE IF Len(message) > MaxMessageLength
    THEN [ok |-> FALSE, error |-> "Message is too long (max 500 characters)"]
    ELSE [ok |-> TRUE, error |-> "none"]

\* the timeouts the assistant sets, with the bounds of their delays in ms:
\* addMessage, ai-assistant.js:269-281
displayTimer(sender, text, isWelcome, re) ==
    [kind |-> "display", sender |-> sender, text |-> text, isWelcome |-> isWelcome,
     re |-> re,
     delay |-> IF sender = "bot" /\ ~isWelcome THEN [min |-> 1000, max |-> 1000]
               ELSE [min |-> 0, max |-> 0]]
\* generateAIResponse, ai-assistant.js:321-333: Math.random() * 1000 + 500
responseTimer(userMessage, re) ==
    [kind |-> "respond", sender |-> "bot", text |-> userMessage, isWelcome |-> FALSE,
     re |-> re, delay |-> [min |-> 500, max |-> 1499]]
\* showInputError, ai-assistant.js:201-203
borderTimer ==
    [kind |-> "border", sender |-> "none", text |-> <<>>, isWelcome |-> FALSE,
     re |-> 0, delay |-> [min |-> 2000, max |-> 2000]]

WelcomeMessage == << "Hello! I'm your AI shopping assistant at HHMI Brothers." >>

\* slice(0, 20) in place of slice(-20): the oldest entries are kept
keepFirst(history) ==
    IF Len(history) > HistoryLimit THEN SubSeq(history, 1, HistoryLimit) ELSE history

\* the array saveConversationHistory keeps and stores, ai-assistant.js:515-517
keepLast(history) ==
    IF Len(history) > HistoryLimit
    THEN SubSeq(history, Len(history) - HistoryLimit + 1, Len(history))
    ELSE history

\* JSON.stringify(conversationHistory) and JSON.parse(saved), ai-assistant.js:519
\* and 532: the string is kept as the array it parses to
stringify(history) == [js |-> "string", json |-> history]
parse(item) == item.json

\* conversationHistory.push(entry) followed by saveConversationHistory(),
\* ai-assistant.js:218-225, 238-245 and 512-523
pushAndSave(type, content) ==
    /\ chatClock' = chatClock + 1
    /\ conversationHistory' =
           keepLast(Append(conversationHistory,
                           [type |-> type, content |-> content,
                            timestamp |-> chatClock + 1]))
    /\ localStorage' = stringify(conversationHistory')

\* no timeout of delay 0 is pending: such a timeout runs before the next event
NoImmediate == \A i \in DOMAIN timers : timers[i].delay.max # 0

\* the timeout can be the next to run: none set earlier is due before it and
\* a timeout of delay 0 runs first, in the order set
CanFire(i) ==
    /\ \A j \in 1..(i - 1) : timers[j].delay.max > timers[i].delay.min
    /\ \A j \in DOMAIN timers : timers[j].delay.max = 0 => timers[i].delay.max = 0 /\ i <= j

RemoveAt(s, i) == SubSeq(s, 1, i - 1) \o SubSeq(s, i + 1, Len(s))

\* hideTypingIndicator that finds no indicator
keepTypingIndicator(messages) == messages

\* hideTypingIndicator, ai-assistant.js:299-304: getElementById finds the first
hideTypingIndicator(messages) ==
    LET Typing == { i \in DOMAIN messages : messages[i].sender = "typing-indicator" }
    IN  IF Typing = {} THEN messages
        ELSE RemoveAt(messages, CHOOSE i \in Typing : \A j \in Typing : i <= j)

\* the user types in the chat input
EditChatInput(value) ==
    /\ NoImmediate
    /\ value # aiInput.value
    /\ aiInput' = [aiInput EXCEPT !.value = value]
    /\ UNCHANGED <<isAIChatOpen, conversationHistory, localStorage, aiMessages, timers,
                   chatClock, chatTrace>>
    /\ UNCHANGED shopVars

\* click on the assistant button, ai-assistant.js:82-89, 103-114 and 119-127
handleAIToggle ==
    /\ NoImmediate
    /\ isAIChatOpen' = ~isAIChatOpen
    /\ aiInput' = IF isAIChatOpen THEN [aiInput EXCEPT !.value = <<>>] ELSE aiInput
    /\ UNCHANGED <<conversationHistory, localStorage, aiMessages, timers, chatClock,
                   chatTrace>>
    /\ UNCHANGED shopVars

\* click on the send button or Enter, ai-assistant.js:157-173, with
\* addUserMessage, 212-226, and generateAIResponse, 319-334
handleSendMessage ==
    /\ NoImmediate
    /\ LET message == trim(aiInput.value)
           v == validateMessage(message)
           re == Len(chatTrace.accepted) + 1
       IN  IF ~v.ok
           THEN /\ \A i \in DOMAIN timers : timers[i].kind # "border"
                /\ aiInput' = [aiInput EXCEPT !.borderColor = "#e74c3c"]
                /\ timers' = Append(timers, borderTimer)
                /\ UNCHANGED <<conversationHistory, localStorage, chatClock, chatTrace>>
           ELSE /\ Len(chatTrace.accepted) < MaxMessages
                /\ timers' = timers \o << displayTimer("user", message, FALSE, re),
                                          responseTimer(message, re) >>
                /\ pushAndSave("user", message)
                /\ aiInput' = [aiInput EXCEPT !.value = <<>>]
                /\ chatTrace' = [chatTrace EXCEPT
                                   !.accepted = Append(@, message),
                                   !.log = Append(@, [type |-> "user", content |-> message,
                                                      timestamp |-> chatClock + 1]),
                                   !.cleared = FALSE]
    /\ UNCHANGED <<isAIChatOpen, aiMessages>>
    /\ UNCHANGED shopVars

\* a timeout runs: the callback of addMessage, ai-assistant.js:269-281, of
\* generateAIResponse, 321-333 with addBotMessage, 232-246, or of showInputError
timeoutFires(i) ==
    /\ i \in DOMAIN timers
    /\ CanFire(i)
    /\ LET t == timers[i]
       IN  CASE t.kind = "display" ->
                 /\ aiMessages' =
                        Append(IF t.sender = "bot" /\ ~t.isWelcome
                               THEN hideTypingIndicator(aiMessages) ELSE aiMessages,
                               [sender |-> t.sender, text |-> t.text])
                 /\ timers' = RemoveAt(timers, i)
                 /\ chatTrace' = IF t.sender = "bot" /\ ~t.isWelcome
                                 THEN [chatTrace EXCEPT !.shown = Append(@, t.re)]
                                 ELSE chatTrace
                 /\ UNCHANGED <<aiInput, conversationHistory, localStorage, chatClock>>
             [] t.kind = "respond" ->
                 \E response \in createAIResponse(t.text) :
                     /\ aiMessages' = Append(aiMessages,
                                             [sender |-> "typing-indicator", text |-> <<>>])
                     /\ timers' = Append(RemoveAt(timers, i),
                                         displayTimer("bot", response, FALSE, t.re))
                     /\ pushAndSave("bot", response)
                     /\ chatTrace' = [chatTrace EXCEPT
                                        !.answered = Append(@, t.re),
                                        !.log = Append(@, [type |-> "bot",
                                                           content |-> response,
                                                           timestamp |-> chatClock + 1])]
                     /\ UNCHANGED aiInput
             [] OTHER ->
                 /\ aiInput' = [aiInput EXCEPT !.borderColor = ""]
                 /\ timers' = RemoveAt(timers, i)
                 /\ UNCHANGED <<conversationHistory, localStorage, aiMessages, chatClock,
                                chatTrace>>
    /\ UNCHANGED isAIChatOpen
    /\ UNCHANGED shopVars

\* window.AIAssistant.clearHistory, ai-assistant.js:544-548 and 555
clearConversationHistory ==
    /\ NoImmediate
    /\ conversationHistory' = <<>>
    /\ localStorage' = NoItem
    /\ chatTrace' = [chatTrace EXCEPT !.log = <<>>, !.cleared = TRUE]
    /\ UNCHANGED <<isAIChatOpen, aiInput, aiMessages, timers, chatClock>>
    /\ UNCHANGED shopVars

\* the assistant after DOMContentLoaded, ai-assistant.js:15-16 and 23-31, with
\* loadConversationHistory, 528-539, in a browser whose localStorage holds saved
assistantLoaded(open, input, history, storage, messages, pending, saved) ==
    /\ open = FALSE
    /\ input = [value |-> <<>>, borderColor |-> ""]
    /\ storage = saved
    /\ history = IF saved = NoItem THEN <<>> ELSE parse(saved)
    /\ messages = <<>>
    /\ pending = << displayTimer("bot", WelcomeMessage, TRUE, 0) >>

\* the page is loaded again: its timeouts and its document are gone, the
\* scripts run from the start, script.js:43-74 and ai-assistant.js:15-31
reloadPage ==
    /\ NoImmediate
    /\ assistantLoaded(isAIChatOpen', aiInput', conversationHistory', localStorage',
                       aiMessages', timers', localStorage)
    /\ UNCHANGED <<chatClock, chatTrace>>
    /\ filteredProducts' = products
    /\ searchInput' = <<>>
    /\ sortSelect' = "default"
    /\ productsContainer' = loadProducts(products, deployment)
    /\ lastSearch' = [done |-> FALSE]
    /\ currentProduct' = Null
    /\ orderModal' = "none"
    /\ productQuantity' = Str1("1")
    /\ orderForm' = EmptyForm
    /\ summary' = NoSummary
    /\ overlays' = <<>>
    /\ closeEmailModal' = "unset"
    /\ outcome' = Outcome("load", 0, "undefined", "log", "none", NoAction)
    /\ UNCHANGED <<deployment, locale, products>>

\* the assistant as loaded, with the clock and the record of the conversation
InitAssistant(saved) ==
    /\ assistantLoaded(isAIChatOpen, aiInput, conversationHistory, localStorage,
                       aiMessages, timers, saved)
    /\ chatClock = Len(conversationHistory)
    /\ chatTrace = [accepted |-> <<>>, answered |-> <<>>, shown |-> <<>>,
                    log |-> conversationHistory, cleared |-> FALSE]

\* the product records of products.js:9-74
CATALOG == <<
    [id |-> 1, price |-> 5499,
     image |-> "assets/images/products/jacket1.jpeg",
     name |-> <<"M","e","n","'","s"," ","W","i","n","t","e","r"," ","P","a",
                "r","k","a"," ","J","a","c","k","e","t">>,
     description |-> <<"W","a","r","m"," ","a","n","d"," ","s","t","y","l",
                       "i","s","h"," ","w","i","n","t","e","r"," ","p","a",
                       "r","k","a"," ","w","i","t","h"," ","h","o","o","d",
                       " ","a","n","d"," ","m","u","l","t","i","p","l","e",
                       " ","p","o","c","k","e","t","s">>,
     category |-> <<"w","i","n","t","e","r">>],
    [id |-> 2, price |-> 4299,
     image |-> "assets/images/products/jacket2.jpeg",
     name |-> <<"W","o","m","e","n","'","s"," ","F","a","u","x"," ","L","e",
                "a","t","h","e","r"," ","J","a","c","k","e","t">>,
     description |-> <<"E","l","e","g","a","n","t"," ","f","a","u","x"," ",
                       "l","e","a","t","h","e","r"," ","j","a","c","k","e",
                       "t"," ","p","e","r","f","e","c","t"," ","f","o","r",
                       " ","c","a","s","u","a","l"," ","a","n","d"," ","f",
                       "o","r","m","a","l"," ","o","c","c","a","s","i","o",
                       "n","s">>,
     category |-> <<"l","e","a","t","h","e","r">>],
    [id |-> 3, price |-> 3299,
     image |-> "assets/images/products/jacket3.jpeg",
     name |-> <<"M","e","n","'","s"," ","D","e","n","i","m"," ","J","a","c",
                "k","e","t">>,
     description |-> <<"C","l","a","s","s","i","c"," ","d","e","n","i","m",
                       " ","j","a","c","k","e","t"," ","w","i","t","h"," ",
                       "a"," ","m","o","d","e","r","n"," ","f","i","t"," ",
                       "a","n","d"," ","c","o","m","f","o","r","t","a","b",
                       "l","e"," ","f","e","e","l">>,
     category |-> <<"d","e","n","i","m">>],
    [id |-> 4, price |-> 4799,
     image |-> "assets/images/products/jacket4.jpeg",
     name |-> <<"W","o","m","e","n","'","s"," ","P","u","f","f","e","r"," ",
                "J","a","c","k","e","t">>,
     description |-> <<"L","i","g","h","t","w","e","i","g","h","t"," ","y",
                       "e","t"," ","w","a","r","m"," ","p","u","f","f","e",
                       "r"," ","j","a","c","k","e","t"," ","w","i","t","h",
                       " ","w","a","t","e","r","-","r","e","s","i","s","t",
                       "a","n","t"," ","f","i","n","i","s","h">>,
     category |-> <<"w","i","n","t","e","r">>],
    [id |-> 5, price |-> 3999,
     image |-> "assets/images/products/jacket5.jpeg",
     name |-> <<"M","e","n","'","s"," ","B","o","m","b","e","r"," ","J","a",
                "c","k","e","t">>,
     description |-> <<"C","l","a","s","s","i","c"," ","b","o","m","b","e",
                       "r"," ","j","a","c","k","e","t"," ","w","i","t","h",
                       " ","r","i","b","b","e","d"," ","c","u","f","f","s",
                       " ","a","n","d"," ","c","o","m","f","o","r","t","a",
                       "b","l","e"," ","f","i","t">>,
     category |-> <<"c","a","s","u","a","l">>],
    [id |-> 6, price |-> 5999,
     image |-> "assets/images/products/jacket3.jpeg",
     name |-> <<"W","o","m","e","n","'","s"," ","T","r","e","n","c","h"," ",
                "C","o","a","t">>,
     description |-> <<"E","l","e","g","a","n","t"," ","t","r","e","n","c",
                       "h"," ","c","o","a","t"," ","p","e","r","f","e","c",
                       "t"," ","f","o","r"," ","f","o","r","m","a","l"," ",
                       "o","c","c","a","s","i","o","n","s"," ","a","n","d",
                       " ","r","a","i","n","y"," ","d","a","y","s">>,
     category |-> <<"f","o","r","m","a","l">>],
    [id |-> 7, price |-> 3799,
     image |-> "assets/images/products/jacket1.jpeg",
     name |-> <<"M","e","n","'","s"," ","H","o","o","d","e","d"," ","J","a",
                "c","k","e","t">>,
     description |-> <<"C","o","m","f","o","r","t","a","b","l","e"," ","h",
                       "o","o","d","e","d"," ","j","a","c","k","e","t"," ",
                       "f","o","r"," ","e","v","e","r","y","d","a","y"," ",
                       "w","e","a","r">>,
     category |-> <<"c","a","s","u","a","l">>],
    [id |-> 8, price |-> 3499,
     image |-> "assets/images/products/jacket.jpeg",
     name |-> <<"W","o","m","e","n","'","s"," ","W","i","n","d","b","r","e",
                "a","k","e","r">>,
     description |-> <<"L","i","g","h","t","w","e","i","g","h","t"," ","w",
                       "i","n","d","b","r","e","a","k","e","r"," ","p","e",
                       "r","f","e","c","t"," ","f","o","r"," ","w","i","n",
                       "d","y"," ","d","a","y","s">>,
     category |-> <<"c","a","s","u","a","l">>] >>

(***************************************************************************)
(* Catalogs and search terms of the query-engine specification             *)
(***************************************************************************)
Pool == {
    [id |-> 1, name |-> Str2("A","b"), price |-> 20, image |-> Str1("i"),
     description |-> Str3("x"," ","y"), category |-> Str1("w")],
    [id |-> 2, name |-> Str1("b"), price |-> 10, image |-> Str1("i"),
     description |-> Str3("B"," ","A"), category |-> Str1("w")],
    [id |-> 3, name |-> Str1("x"), price |-> 20, image |-> Str1("i"),
     description |-> Str1("y"), category |-> Str2("A","b")],
    [id |-> 4, name |-> Str2("a","b"), price |-> 30, image |-> Str1("i"),
     description |-> Str3("a"," ","b"), category |-> Str1("x")] }

Catalogs ==
    {c \in UNION {[1..n -> Pool] : n \in 0..MaxCatalog} :
        \A i, j \in 1..Len(c) : i # j => c[i].id # c[j].id}

SearchTerms == { <<>>, Str1(" "), Str1("a"), Str1("A"), Str2("a"," "),
                 Str2("a","b"), Str3("B"," ","a"), Str1("z") }

Deployments == {"script.js", "products.js"}

\* the locales of the browsers considered: en-US groups thousands with a
\* comma, es-ES with a period and only from five digits on
Locales == {"en-US", "es-ES"}

\* the page after DOMContentLoaded, script.js:43-44 and 51-74, in a browser
\* whose default locale is loc
InitStore(catalog, dep, loc) ==
    /\ deployment = dep
    /\ locale = loc
    /\ products = catalog
    /\ filteredProducts = catalog
    /\ searchInput = <<>>
    /\ sortSelect = "default"
    /\ productsContainer = loadProducts(catalog, dep)
    /\ lastSearch = [done |-> FALSE]
    /\ currentProduct = Null
    /\ orderModal = "none"
    /\ productQuantity = Str1("1")
    /\ orderForm = EmptyForm
    /\ summary = NoSummary
    /\ overlays = <<>>
    /\ closeEmailModal = "unset"
    /\ outcome = Outcome("load", 0, "undefined", "log", "none", NoAction)

\* the page of a visitor who has no conversation saved
InitLocalized(catalog, dep, loc) == InitStore(catalog, dep, loc) /\ InitAssistant(NoItem)

\* the page in an en-US browser
InitPage(catalog, dep) == InitLocalized(catalog, dep, "en-US")

InitQuery == \E c \in Catalogs : InitPage(c, "script.js")

NextQuery ==
    \/ \E t \in SearchTerms : EditSearch(t)
    \/ performSearch
    \/ \E k \in SortKeys : performSort(k)

SpecQuery == InitQuery /\ [][NextQuery]_vars

(***************************************************************************)
(* The shop: the catalog of products.js with the order flow                *)
(***************************************************************************)
ShopCatalog == SubSeq(CATALOG, 1, CatalogSize)

NonexistentIds == {999}

QuantityInputs == { Str1("1"), Str1("4"), Str1("0"), Str2("-","3"),
                    Str3("a","b","c"), Str3("2",".","5") }

FilledForm == [name |-> Str3("A","l","i"), phone |-> Str2("0","3"),
               email |-> <<"a","@","b",".","c">>, address |-> Str2("S","t"),
               size |-> Str1("M"), instructions |-> Str2("o","k")]

FormInputs == {
    EmptyForm,
    FilledForm,
    [FilledForm EXCEPT !.email = Str3("a","@","b")],
    [FilledForm EXCEPT !.name = <<>>, !.address = <<>>] }

ClockReadings == {"12:00"}

\* the ids of the Buy buttons on display, script.js:218-229
BuyButtonIds == {productsContainer.cards[i].dataId : i \in 1..Len(productsContainer.cards)}

InitShop == \E dep \in Deployments : InitPage(ShopCatalog, dep)

\* the order flow on the page as loaded, for a customer who dismisses an email
\* overlay before asking for the next one
NextOrder ==
    \/ \E id \in BuyButtonIds \cup NonexistentIds : openOrderModal(id)
    \/ closeOrderModal
    \/ outsideModalClick
    \/ \E q \in QuantityInputs : quantityChange(q)
    \/ \E f \in FormInputs : fillForm(f)
    \/ \E now \in ClockReadings : placeWhatsAppOrder(now)
    \/ \E now \in ClockReadings : placeEmailOrderMailto(now)
    \/ \E now \in ClockReadings : overlays = <<>> /\ placeEmailOrderCopy(now)
    \/ closeEmailModalClick

SpecOrder == InitShop /\ [][NextOrder]_vars

\* every event of the page, for a customer who dismisses an email overlay
\* before asking for the next one
Next ==
    \/ EditSearch(<<"d","e","n","i","m"," ">>)
    \/ performSearch
    \/ \E k \in {"default", "price-low"} : performSort(k)
    \/ \E id \in BuyButtonIds \cup NonexistentIds : openOrderModal(id)
    \/ closeOrderModal
    \/ outsideModalClick
    \/ quantityChange(Str1("4"))
    \/ fillForm(FilledForm)
    \/ \E now \in ClockReadings : placeWhatsAppOrder(now)
    \/ \E now \in ClockReadings : placeEmailOrderMailto(now)
    \/ \E now \in ClockReadings : overlays = <<>> /\ placeEmailOrderCopy(now)
    \/ closeEmailModalClick

Spec == InitShop /\ [][Next]_vars

(***************************************************************************)
(* The order flow of a customer who fills the form in correctly, in        *)
(* browsers of either locale, with a clock that advances                   *)
(***************************************************************************)
DispatchQuantities == { Str1("2") }

DispatchForms == { FilledForm, [FilledForm EXCEPT !.instructions = <<>>] }

DispatchClock == {"12:00", "12:05"}

InitDispatch ==
    \E dep \in Deployments : \E loc \in Locales : InitLocalized(ShopCatalog, dep, loc)

NextDispatch ==
    \/ \E id \in BuyButtonIds : openOrderModal(id)
    \/ closeOrderModal
    \/ \E q \in DispatchQuantities : quantityChange(q)
    \/ \E f \in DispatchForms : fillForm(f)
    \/ \E now \in DispatchClock : placeWhatsAppOrder(now)
    \/ \E now \in DispatchClock : placeEmailOrderMailto(now)
    \/ \E now \in DispatchClock : overlays = <<>> /\ placeEmailOrderCopy(now)
    \/ closeEmailModalClick

SpecDispatch == InitDispatch /\ [][NextDispatch]_vars

(***************************************************************************)
(* The order flow of a customer who leaves any of the fields empty or      *)
(* mistypes the email                                                      *)
(***************************************************************************)
EmailInputs == { <<>>, <<"a","@","b",".","c">>, Str3("a","@","b") }

\* name and address left empty or not, with every email, and the forms
\* without a phone or without a size
ValidationForms ==
    { [FilledForm EXCEPT !.name = n, !.address = a, !.email = e] :
        n \in {<<>>, FilledForm.name}, a \in {<<>>, FilledForm.address},
        e \in EmailInputs }
    \cup { [FilledForm EXCEPT !.phone = <<>>], [FilledForm EXCEPT !.size = <<>>] }

NextValidate ==
    \/ \E id \in BuyButtonIds : openOrderModal(id)
    \/ closeOrderModal
    \/ quantityChange(Str1("4"))
    \/ \E f \in ValidationForms : fillForm(f)
    \/ \E now \in ClockReadings : placeWhatsAppOrder(now)
    \/ \E now \in ClockReadings : placeEmailOrderMailto(now)
    \/ \E now \in ClockReadings : overlays = <<>> /\ placeEmailOrderCopy(now)
    \/ closeEmailModalClick

SpecValidate == InitShop /\ [][NextValidate]_vars

(***************************************************************************)
(* The clipboard email flow of script.js for a customer who works the      *)
(* page from the keyboard: the overlay covers the page but takes no focus, *)
(* so the buttons of the order modal stay reachable while it is showing    *)
(***************************************************************************)
InitOverlay == InitPage(ShopCatalog, "script.js")

NextOverlay ==
    \/ \E id \in BuyButtonIds : openOrderModal(id)
    \/ closeOrderModal
    \/ quantityChange(Str1("4"))
    \/ \E f \in DispatchForms : fillForm(f)
    \/ \E now \in ClockReadings : placeWhatsAppOrder(now)
    \/ \E now \in ClockReadings : placeEmailOrderCopy(now)
    \/ closeEmailModalClick

SpecOverlay == InitOverlay /\ [][NextOverlay]_vars

(***************************************************************************)
(* The Gmail variant of the email handler of script.js, in a browser that  *)
(* opens the compose window or blocks it                                   *)
(***************************************************************************)
WindowOpenResults == {"window", "null"}

NextGmail ==
    \/ \E id \in BuyButtonIds : openOrderModal(id)
    \/ closeOrderModal
    \/ quantityChange(Str1("4"))
    \/ \E f \in DispatchForms \cup {[FilledForm EXCEPT !.size = <<>>]} : fillForm(f)
    \/ \E now \in DispatchClock : \E opened \in WindowOpenResults :
           placeEmailOrderGmail(now, opened)

SpecGmail == InitOverlay /\ [][NextGmail]_vars

(***************************************************************************)
(* The assistant: a visitor who chats, clears the conversation and loads   *)
(* the page again, in a browser that may hold the conversation of an       *)
(* earlier visit                                                           *)
(***************************************************************************)
LongMessage == [i \in 1..(MaxMessageLength + 1) |-> "a"]

\* the conversation saved by a visit of n questions, each answered before the next
PreviousVisit(n) ==
    [i \in 1..(2 * n) |->
        IF i % 2 = 1
        THEN [type |-> "user", content |-> <<"s","i","z","e">>, timestamp |-> i]
        ELSE [type |-> "bot", timestamp |-> i,
              content |-> << "We offer a comprehensive size range to ensure perfect fit" >>]]

\* nothing saved, or a conversation that fills the log or lacks two entries to
SavedConversations ==
    { NoItem, stringify(PreviousVisit((HistoryLimit \div 2) - 1)),
      stringify(PreviousVisit(HistoryLimit \div 2)) }

InitLog ==
    \E saved \in SavedConversations :
        InitStore(ShopCatalog, "script.js", "en-US") /\ InitAssistant(saved)

\* messages, responses, clears and page loads
NextLog ==
    \/ EditChatInput(<<"s","i","z","e">>)
    \/ handleSendMessage
    \/ \E i \in DOMAIN timers : timeoutFires(i)
    \/ clearConversationHistory
    \/ reloadPage

SpecLog == InitLog /\ [][NextLog]_vars

(***************************************************************************)
(* The assistant on a page that stays loaded, for a first-time visitor who *)
(* does not wait for a response before sending the next message            *)
(***************************************************************************)
ChatInputs == { Str1(" "), <<" ","P","r","i","c","e"," ">>, <<"h","i">> }

InitChat == InitPage(ShopCatalog, "script.js")

NextChat ==
    \/ \E v \in ChatInputs : EditChatInput(v)
    \/ handleAIToggle
    \/ handleSendMessage
    \/ \E i \in DOMAIN timers : timeoutFires(i)
    \/ clearConversationHistory

SpecChat == InitChat /\ [][NextChat]_vars

\* the same page with messages the assistant rejects; a timeout that is set
\* runs: the browser's timer queue is served as long as the page is loaded
NextChatLive ==
    \/ \E v \in { Str1(" "), <<"s","i","z","e">>, LongMessage } : EditChatInput(v)
    \/ handleSendMessage
    \/ \E i \in DOMAIN timers : timeoutFires(i)

SpecChatLive ==
    /\ InitChat
    /\ [][NextChatLive]_vars
    /\ WF_vars(\E i \in DOMAIN timers : timeoutFires(i))

(***************************************************************************)
(* Properties of the query engine, checked under SpecQuery                 *)
(***************************************************************************)
Range(s) == {s[i] : i \in 1..Len(s)}

Ids(s) == [i \in 1..Len(s) |-> s[i].id]

CardIds == [i \in 1..Len(productsContainer.cards) |-> productsContainer.cards[i].dataId]

Count(s, x) == Cardinality({i \in 1..Len(s) : s[i] = x})

IsPermutation(a, b) ==
    /\ Len(a) = Len(b)
    /\ \A x \in Range(a) \cup Range(b) : Count(a, x) = Count(b, x)

\* text contains term, letter case ignored
ContainsIgnoringCase(text, term) == includes(toLowerCase(text), toLowerCase(term))

ProductContains(p, term) ==
    \/ ContainsIgnoringCase(p.name, term)
    \/ ContainsIgnoringCase(p.description, term)
    \/ ContainsIgnoringCase(p.category, term)

\* C1, as stated: after performSearch with the term t of the search box, the
\* filtered list holds exactly the catalog products that contain t, letter case
\* ignored, in name, description or category.
C1_ListsExactlyTheProductsContainingTheTerm ==
    lastSearch.done =>
        \A i \in 1..Len(products) :
            (products[i] \in Range(filteredProducts))
                <=> ProductContains(products[i], lastSearch.term)

\* C1, amended: after performSearch with the term t of the search box, the
\* filtered list holds exactly the catalog products that contain t with its
\* leading and trailing white space removed, letter case ignored, in name,
\* description or category.
C1_ListsExactlyTheProductsContainingTheTrimmedTerm ==
    lastSearch.done =>
        \A i \in 1..Len(products) :
            (products[i] \in Range(filteredProducts))
                <=> ProductContains(products[i], trim(lastSearch.term))

\* a search with an upper-case term that lists some products and not others
C1_Witness ==
    /\ lastSearch.done
    /\ lastSearch.term # toLowerCase(lastSearch.term)
    /\ filteredProducts # <<>>
    /\ Len(filteredProducts) < Len(products)

\* C2: after performSearch with an empty or white-space-only term the filtered
\* list is the whole catalog, whatever was listed before.
C2_BlankTermListsTheWholeCatalog ==
    (lastSearch.done /\ trim(lastSearch.term) = <<>>) => filteredProducts = products

\* a white-space-only search, after a search that had listed fewer products,
\* over a catalog with a product that holds no white space
C2_Witness ==
    /\ lastSearch.done
    /\ lastSearch.term = Str1(" ")
    /\ lastSearch.before < Len(products)
    /\ filteredProducts = products
    /\ \E i \in 1..Len(products) : ~ProductContains(products[i], lastSearch.term)

\* C3: under price-low the cards are in non-decreasing price order, under
\* price-high in non-increasing price order, and in both cases the cards are a
\* permutation of the filtered products.
C3_PriceSortOrdersTheView ==
    LET cards == productsContainer.cards
    IN  /\ sortSelect = "price-low" =>
              \A i, j \in 1..Len(cards) : i < j => cards[i].price <= cards[j].price
        /\ sortSelect = "price-high" =>
              \A i, j \in 1..Len(cards) : i < j => cards[i].price >= cards[j].price
        /\ sortSelect \in {"price-low", "price-high"} =>
              /\ IsPermutation(CardIds, Ids(filteredProducts))
              /\ \A i \in 1..Len(cards) :
                    \E p \in Range(filteredProducts) :
                        cards[i] = createProductCard(p, deployment)

\* a price sort that moved products, two of them at the same price
C3_Witness ==
    /\ sortSelect \in {"price-low", "price-high"}
    /\ Len(productsContainer.cards) >= 2
    /\ CardIds # Ids(filteredProducts)

\* C4: under a sort key other than price-low, price-high and name the cards
\* are the filtered products in catalog order, also after an earlier price or
\* name sort.
C4_DefaultKeyKeepsCatalogOrder ==
    sortSelect \notin {"price-low", "price-high", "name"} =>
        CardIds = Ids(SelectSeq(products, LAMBDA p : p \in Range(filteredProducts)))

\* the default key is selected after the latest search was shown in another order
C4_Witness ==
    /\ sortSelect = "default"
    /\ lastSearch.done
    /\ lastSearch.key \in {"price-low", "price-high", "name"}
    /\ lastSearch.view # productsContainer.cards
    /\ Len(productsContainer.cards) >= 2

\* C5: a performSearch with the term and the sort key of the latest
\* performSearch renders the sequence that one rendered, whatever happened in
\* between.
C5_SameTermAndKeySameView ==
    [][(performSearch /\ lastSearch.done /\ lastSearch.term = searchInput
          /\ lastSearch.key = sortSelect)
        => productsContainer'.cards = lastSearch.view]_vars

\* a search repeated with the same term and key, listing two or more products
\* under a real sort key
C5_Witness ==
    /\ lastSearch.done
    /\ lastSearch.again
    /\ lastSearch.key # "default"
    /\ trim(lastSearch.term) # <<>>
    /\ Len(productsContainer.cards) >= 2

(***************************************************************************)
(* Properties of the catalog store, checked under Spec                     *)
(***************************************************************************)
\* C6: after any sequence of search, sort, select, quantity change, order
\* placement and modal close events the products array holds the records it
\* was loaded with, in the same order.
C6_CatalogIsReadOnly == products = ShopCatalog

\* a page on which a search was performed under a price sort that reorders
\* the catalog, a quantity was entered and an order went out through WhatsApp,
\* which closed the modal
C6_Witness ==
    /\ lastSearch.done
    /\ sortSelect = "price-low"
    /\ CardIds # Ids(filteredProducts)
    /\ summary.shown /\ summary.quantity = 4
    /\ outcome.action.channel = "whatsapp"
    /\ orderModal = "none"

(***************************************************************************)
(* Properties of the selection state, checked under SpecOrder              *)
(***************************************************************************)
\* C7: openOrderModal with an id that no catalog product has selects no
\* product (in particular not the first one of the catalog), does not open the
\* order modal, and leaves a cleared selection cleared.
C7_UnknownIdSelectsNothing ==
    [][(\E id \in NonexistentIds : openOrderModal(id))
        => /\ ~IsSelected(currentProduct')
           /\ currentProduct' # products[1]
           /\ orderModal' = orderModal
           /\ (~IsSelected(currentProduct) => ~IsSelected(currentProduct'))]_vars

\* openOrderModal was called with an unknown id on a page with a cleared
\* selection and a closed modal
C7_Witness ==
    /\ outcome.op = "openOrderModal"
    /\ outcome.arg \in NonexistentIds
    /\ outcome.console = "error"
    /\ currentProduct = Undefined
    /\ orderModal = "none"

\* C8, as stated: the caller can tell a failed select from a successful one by
\* the result it gets back, and a failed validate from a successful one; an
\* error is never only logged.
C8_ErrorsReachTheCaller ==
    /\ (outcome.op = "openOrderModal" /\ ~IsSelected(currentProduct))
          => outcome.result # openOrderModalResult(TRUE)
    /\ \A f \in FormInputs :
          validateForm(f, deployment).ok = (validateForm(f, deployment).alert = "none")

\* C9, as stated: the quantity used for the summary and for the order is the
\* entered value when that is a positive integer and 1 otherwise, so it is
\* never below 1.
IsPositiveInteger(value) ==
    /\ value # <<>>
    /\ \A i \in 1..Len(value) : IsDigit(value[i])
    /\ digitsValue(value, Len(value)) > 0

ClaimedQuantity(value) ==
    IF IsPositiveInteger(value) THEN digitsValue(value, Len(value)) ELSE 1

C9_QuantityIsCoercedToAPositiveInteger ==
    /\ IsSelected(currentProduct) => summary.quantity = ClaimedQuantity(productQuantity)
    /\ summary.shown => summary.quantity >= 1
    /\ outcome.action.channel \in {"whatsapp", "mailto"}
          => outcome.action.order.quantity >= 1
    /\ \A i \in 1..Len(overlays) : overlays[i].order.quantity >= 1

RequiredFields == {"name", "phone", "address", "size"}

EmptyRequiredFields(form) == {f \in RequiredFields : form[f] = <<>>}

OrderOps == {"placeWhatsAppOrder", "placeEmailOrder"}

\* C11, as stated: when an order is placed with required fields left empty,
\* the error reported names exactly the required fields that are empty.
C11_MissingFieldsAreReported ==
    (outcome.op \in OrderOps /\ EmptyRequiredFields(orderForm) # {})
        => /\ outcome.alert = "required"
           /\ fieldsNamedByAlert(outcome.alert, deployment) = EmptyRequiredFields(orderForm)

\* a click on either order button, at any clock reading
PlaceOrder ==
    \E now \in ClockReadings \cup DispatchClock :
        \/ placeWhatsAppOrder(now)
        \/ placeEmailOrderMailto(now)
        \/ placeEmailOrderCopy(now)

\* local@domain.tld: an @ with text before it, a period after it with text
\* on both sides, and no white space
HasEmailForm(email) ==
    /\ \A i \in 1..Len(email) : ~IsWhiteSpace(email[i])
    /\ \E at \in 2..Len(email) : \E dot \in (at + 2)..(Len(email) - 1) :
          email[at] = "@" /\ email[dot] = "."

\* C12, as stated: with name, phone, address and size filled in, validation
\* succeeds when the email is empty or has the form local@domain.tld, and
\* fails with the invalid-email error otherwise.
C12_EmailIsOptional ==
    [][(PlaceOrder /\ EmptyRequiredFields(orderForm) = {})
        => IF orderForm.email = <<>> \/ HasEmailForm(orderForm.email)
           THEN outcome'.alert = "none"
           ELSE outcome'.alert = "email"]_vars

\* a required field is empty or the email entered is malformed
FormIsInvalid(form) ==
    \/ EmptyRequiredFields(form) # {}
    \/ form.email # <<>> /\ ~HasEmailForm(form.email)

\* C13: a click on an order button with a required field empty or a
\* malformed email changes nothing: the selected product, the quantity, the
\* entered fields, the open modal, the summary and the overlays stay, the
\* error is alerted and no url or overlay is produced.
C13_FailedValidationChangesNothing ==
    [][(PlaceOrder /\ FormIsInvalid(orderForm))
        => /\ UNCHANGED <<currentProduct, productQuantity, orderForm, orderModal,
                          summary, overlays>>
           /\ outcome'.alert # "none"
           /\ outcome'.action = NoAction]_vars

\* an order for four pieces was refused for its malformed email and the
\* product is still selected in the open modal
C13_Witness ==
    /\ outcome.op \in OrderOps
    /\ outcome.alert = "email"
    /\ outcome.action = NoAction
    /\ FormIsInvalid(orderForm)
    /\ IsSelected(currentProduct)
    /\ productQuantity = Str1("4")
    /\ orderModal = "block"

(***************************************************************************)
(* Properties of the order lifecycle, checked under SpecOrder              *)
(***************************************************************************)
ClosingOps == {"closeOrderModal", "outsideModalClick", "closeEmailModal"}

SelectionIsCleared ==
    /\ ~IsSelected(currentProduct)
    /\ productQuantity = Str1("1")

C15_OrdersAreBuiltFromAValidSelection ==
    [][(PlaceOrder /\ validateForm(orderForm, deployment).ok)
        => /\ IsSelected(currentProduct)
           /\ currentProduct \in Range(products)
           /\ outcome'.result # "TypeError"]_vars

(***************************************************************************)
(* Properties of composed orders and their messages, checked under         *)
(* SpecDispatch                                                            *)
(***************************************************************************)
\* the order carries the product, price, size, quantity, total and clock
\* reading of the state in which the button is clicked
ComposedNow(order, now) ==
    /\ order.product = currentProduct.name
    /\ order.price = currentProduct.price
    /\ order.size = orderForm.size
    /\ order.quantity = effectiveQuantity(productQuantity)
    /\ order.total = currentProduct.price * effectiveQuantity(productQuantity)
    /\ order.time = now

\* C16: a composed order carries the time, product name, unit price, size,
\* quantity and total of the moment the order button is clicked, the text
\* handed to the channel is the message of that order, and no later event
\* (a later clock reading, a quantity change, a modal close, a new selection)
\* changes an overlay that is already showing.
C16_ComposedOrderIsFrozen ==
    [][/\ \A now \in DispatchClock :
            ((placeWhatsAppOrder(now) \/ placeEmailOrderMailto(now))
                /\ outcome'.action.channel # "none")
            => ComposedNow(outcome'.action.order, now)
       /\ \A now \in DispatchClock :
            (placeEmailOrderCopy(now) /\ outcome'.action.channel = "overlay")
            => /\ Len(overlays') = Len(overlays) + 1
               /\ ComposedNow(overlays'[Len(overlays')].order, now)
               /\ overlays'[Len(overlays')].emailOrderText
                     = emailContent(overlays'[Len(overlays')].order, deployment, locale)
       /\ \A i \in 1..Len(overlays) :
            i <= Len(overlays') => overlays'[i] = overlays[i]]_vars

\* the overlay of an order for two pieces composed at 12:00 is still showing
\* after the modal was closed, another product was selected and ordered
\* through WhatsApp at 12:05
C16_Witness ==
    /\ Len(overlays) = 1
    /\ overlays[1].order.time = "12:00"
    /\ overlays[1].order.quantity = 2
    /\ outcome.action.channel = "whatsapp"
    /\ outcome.action.order.time = "12:05"
    /\ outcome.action.order.product # overlays[1].order.product
    /\ outcome.action.order.quantity = 1

\* the orders whose messages are in the state: the one of the url just opened
\* and the ones of the overlays showing
ComposedOrders ==
    (IF outcome.action.channel \in {"whatsapp", "mailto"}
     THEN {outcome.action.order} ELSE {})
    \cup {overlays[i].order : i \in 1..Len(overlays)}

SectionRank(section) ==
    CASE section = "header" -> 0
      [] section = "details" -> 1
      [] section = "customer" -> 2
      [] section = "instructions" -> 3
      [] section = "footer" -> 4

\* the lines of a section that carry an interpolated value
ValuesOf(message, section) ==
    {i \in 1..Len(message) : message[i].section = section /\ message[i].value # <<>>}

\* C17: the message of every composed order has its sections in the order
\* order details, customer information, instructions, footer; the
\* instructions section shows None when the instructions are empty and the
\* entered instructions otherwise; the text handed to WhatsApp or put in the
\* overlay is that message.
C17_MessageHasFixedSections ==
    /\ \A o \in ComposedOrders :
          LET m == formatOrderMessage(o, deployment, locale)
          IN  /\ \A i, j \in 1..Len(m) :
                    i < j => SectionRank(m[i].section) <= SectionRank(m[j].section)
              /\ \A sec \in {"details", "customer", "instructions", "footer"} :
                    \E i \in 1..Len(m) : m[i].section = sec
              /\ \E i \in 1..Len(m) : ValuesOf(m, "instructions") = {i}
              /\ \A i \in ValuesOf(m, "instructions") :
                    m[i].value = IF o.instructions = <<>>
                                 THEN <<"N", "o", "n", "e">>
                                 ELSE o.instructions
    /\ outcome.action.channel = "whatsapp"
          => outcome.action.text
                = encodeLines(formatOrderMessage(outcome.action.order, deployment, locale))
    /\ \A k \in 1..Len(overlays) :
          LET m == formatOrderMessage(overlays[k].order, deployment, locale)
          IN  SubSeq(overlays[k].emailOrderText, 1, Len(m)) = m

\* an order without instructions went out through WhatsApp
C17_Witness ==
    /\ outcome.action.channel = "whatsapp"
    /\ outcome.action.order.instructions = <<>>
    /\ \E i \in 1..Len(outcome.action.text) :
          outcome.action.text[i].value = <<"N", "o", "n", "e">>

\* the values of the lines of a message that carry one of the labels
ValuesLabelled(message, labels) ==
    {message[i].value : i \in {j \in 1..Len(message) : message[j].label \in labels}}

\* C18, as stated: an order of two pieces of a product priced 4299 has the
\* total 8598, and its message shows 4299 as the unit price and 8598 as the
\* total, digits only.
C18_AmountsArePlainDigits ==
    \A o \in ComposedOrders :
        (o.price = 4299 /\ o.quantity = 2)
        => LET m == formatOrderMessage(o, deployment, locale)
           IN  /\ o.total = 8598
               /\ ValuesLabelled(m, {"Price: PKR ", "Unit Price: PKR "})
                     = {<<"4", "2", "9", "9">>}
               /\ ValuesLabelled(m, {"Total: PKR ", "Total Amount: PKR "})
                     = {<<"8", "5", "9", "8">>}

\* C19, as stated: the url opened for WhatsApp is the service address, a phone
\* number made of digits only that is fixed for the deployment, and the
\* percent-encoded message of the order as its text.
C19_WhatsAppUrlHasDigitsOnlyPhone ==
    outcome.action.channel = "whatsapp"
        => /\ outcome.action.service = "https://wa.me/"
           /\ outcome.action.to = whatsAppPhone(deployment)
           /\ outcome.action.to # <<>>
           /\ \A i \in 1..Len(outcome.action.to) : IsDigit(outcome.action.to[i])
           /\ outcome.action.text
                 = encodeLines(formatOrderMessage(outcome.action.order, deployment, locale))

\* the subjects of the emails in the state: the one of the mailto link just
\* opened and the ones of the overlays showing, each with its order
EmailSubjects ==
    (IF outcome.action.channel = "mailto"
     THEN {<<outcome.action.subject, outcome.action.order>>} ELSE {})
    \cup {<<overlays[i].subject, overlays[i].order>> : i \in 1..Len(overlays)}

\* C20, as stated: the subject of every order email, in the mailto link and
\* in the clipboard flow with its Gmail link, includes the name of the
\* ordered product.
C20_EmailSubjectNamesTheProduct ==
    \A e \in EmailSubjects :
        /\ e[2].product # <<>>
        /\ e[1].product = e[2].product

(***************************************************************************)
(* Properties of the handlers as steps of the page                         *)
(***************************************************************************)
\* how the handler delivered the channel action it built
DeliveredVia(action) ==
    IF action.channel \in {"whatsapp", "mailto"} THEN action.via ELSE "none"

\* C21: a handler that builds a channel action opens no window, changes no
\* location and changes neither the selection nor the form
C21_BuildingAnActionHasNoEffect ==
    [][PlaceOrder =>
         /\ DeliveredVia(outcome'.action) \notin {"window.open", "window.location.href"}
         /\ UNCHANGED <<currentProduct, orderModal, productQuantity, orderForm>>]_vars

\* C22: at most one email overlay exists, no order is placed while an overlay
\* is showing, and a click on the button of an overlay removes it
C22_OneOverlayAlwaysDismissable ==
    [][/\ Len(overlays') <= 1
       /\ (overlays # <<>> /\ PlaceOrder => outcome'.action.channel = "none")
       /\ (closeEmailModalClick => Len(overlays') = Len(overlays) - 1)]_vars

(***************************************************************************)
(* Properties of the assistant                                             *)
(***************************************************************************)
\* the array read back from localStorage, empty when the item is absent
StoredLog == IF localStorage = NoItem THEN <<>> ELSE parse(localStorage)

\* the n latest elements of s
Latest(s, n) == IF Len(s) > n THEN SubSeq(s, Len(s) - n + 1, Len(s)) ELSE s

GmailBlocked ==
    /\ validateForm(orderForm, deployment).ok
    /\ IsSelected(currentProduct)
    /\ \E now \in DispatchClock : placeEmailOrderGmail(now, "null")

\* C24: when the Gmail window cannot be opened the handler offers the body
\* for copying and completes without an error, and keeps the selection and
\* the form
C24_BlockedGmailFallsBackToCopying ==
    [][GmailBlocked =>
         /\ outcome'.result = "undefined"
         /\ Len(overlays') = Len(overlays) + 1
         /\ UNCHANGED <<currentProduct, orderModal, productQuantity, orderForm>>]_vars

(***************************************************************************)
(* The view as a function of the latest search and the selected key        *)
(***************************************************************************)
\* the products of the catalog that match the term, ordered by the key
filterAndSort(catalog, term, key) ==
    LET matching == filterProducts(catalog, normalizeSearchTerm(term))
    IN  IF key = "default" THEN matching ELSE arraySort(matching, key)

\* the term of the latest search performed, empty before the first
LatestTerm == IF lastSearch.done THEN lastSearch.term ELSE <<>>

\* C25: the rendered list is filterAndSort of the catalog, the term of the
\* latest search performed and the sort key now selected, whatever was
\* searched, selected or typed before
C25_ViewIsFilterAndSortOfLatestTermAndKey ==
    productsContainer = loadProducts(filterAndSort(products, LatestTerm, sortSelect),
                                     deployment)

\* a search for a term that matches two products, then another key selected
\* and another term typed but not submitted
C25_Witness ==
    /\ lastSearch.done
    /\ normalizeSearchTerm(lastSearch.term) # <<>>
    /\ searchInput # lastSearch.term
    /\ sortSelect \notin {lastSearch.key, "default"}
    /\ Len(productsContainer.cards) >= 2
    /\ productsContainer.cards # lastSearch.view

(***************************************************************************)
(* The selection and the modal, checked under SpecOrder                    *)
(***************************************************************************)
\* C26: the order modal is visible exactly when the current product is a
\* product of the catalog, and a select of an unknown id while a product is
\* selected changes neither the selection nor the modal
C26_ModalVisibleIffProductSelected ==
    [][/\ (orderModal' = "block") <=> (currentProduct' \in Range(products'))
       /\ ((\E id \in NonexistentIds : openOrderModal(id)) /\ orderModal = "block")
            => UNCHANGED <<currentProduct, orderModal>>]_vars

(***************************************************************************)
(* The order and the delivery of the responses, checked under SpecChat and *)
(* SpecChatLive                                                            *)
(***************************************************************************)
IsIncreasing(s) == \A i, j \in DOMAIN s : i < j => s[i] < s[j]

\* C27: the responses are recorded and shown in the order of the messages
\* they answer, whatever the delays of the timeouts
C27_ResponsesInRequestOrder ==
    /\ IsIncreasing(chatTrace.answered)
    /\ IsIncreasing(chatTrace.shown)

\* the message in the input is one validateMessage rejects
InputIsRejected == ~validateMessage(trim(aiInput.value)).ok

\* the timeouts that deliver a response or a message
Deliveries(pending) == SelectSeq(pending, LAMBDA t : t.kind # "border")

TypingIndicators == { i \in DOMAIN aiMessages : aiMessages[i].sender = "typing-indicator" }

\* C28: every accepted message is eventually answered by a response that is
\* recorded and shown, and by one only; no typing indicator is left when no
\* timeout is pending; a rejected message adds nothing to the conversation,
\* to the message list or to the timeouts that deliver responses
C28_EveryAcceptedMessageIsAnsweredOnce ==
    /\ \A k \in 1..MaxMessages :
          (Len(chatTrace.accepted) >= k)
              ~> (k \in Range(chatTrace.answered) /\ k \in Range(chatTrace.shown))
    /\ [](/\ \A k \in 1..MaxMessages :
               /\ Count(chatTrace.answered, k) <= 1
               /\ Count(chatTrace.shown, k) <= 1
          /\ Range(chatTrace.answered) \subseteq 1..Len(chatTrace.accepted)
          /\ (Deliveries(timers) = <<>> => TypingIndicators = {}))
    /\ [][(handleSendMessage /\ InputIsRejected)
            => /\ UNCHANGED <<conversationHistory, localStorage, aiMessages, chatTrace>>
               /\ Deliveries(timers') = Deliveries(timers)]_vars

\* two messages sent without waiting, both answered and shown, after a
\* message that was rejected, and nothing pending
C28_Witness ==
    /\ Len(chatTrace.accepted) = 2
    /\ Len(chatTrace.answered) = 2
    /\ Len(chatTrace.shown) = 2
    /\ \E i \in DOMAIN aiMessages :
          /\ aiMessages[i].sender = "user"
          /\ i + 1 \in DOMAIN aiMessages
          /\ aiMessages[i + 1].sender = "user"
    /\ timers = <<>>
    /\ TypingIndicators = {}
    /\ InputIsRejected

\* C29: from a clear until the next message is accepted the conversation in
\* memory and the saved one are empty, also when a response was pending
C29_ClearedHistoryStaysEmpty ==
    chatTrace.cleared => conversationHistory = <<>> /\ StoredLog = <<>>

\* C30: right after every select that finds its product, also one issued
\* while another product is selected, the quantity is 1 and the customer
\* fields are empty
C30_NewSelectionStartsFresh ==
    [][((\E id \in BuyButtonIds : openOrderModal(id)) /\ IsSelected(currentProduct'))
        => /\ productQuantity' = Str1("1")
           /\ orderForm' = EmptyForm]_vars

====
